---- MODULE Spec2Model ----
(***************************************************************************)
(* The asynchronous response-generation protocol of frida_server.py:       *)
(* the process-wide dictionaries sessions and response_threads, the        *)
(* result dictionaries the second one refers to, the HTTP handlers that    *)
(* read and write them, and the background thread get_response starts.     *)
(*                                                                         *)
(* A Python dictionary is a function whose DOMAIN is the set of keys       *)
(* present.  History lists and result dictionaries are objects shared by   *)
(* reference, so they live in two heaps (lists, tasks) and the             *)
(* dictionaries hold indices into them; a list nothing refers to any more  *)
(* is freed, as reference counting frees it.  Handlers run on the threads  *)
(* of the HTTP server, one per request in flight.  Every dictionary or     *)
(* list operation is one atomic step (the interpreter lock) and the steps  *)
(* of different threads interleave freely; a step that only computes a     *)
(* local value is taken together with the next step that reads or writes   *)
(* shared state, and a local variable is cleared after its last use.       *)
(***************************************************************************)
EXTENDS Integers, Sequences, FiniteSets, TLC

\* ---------------------------------------------------------------- bounds
MaxTasks == 2        \* get_response calls that start a thread, one request at a time
MaxRacing == 1       \* the same, with requests handled at the same time
MaxTicks == 1        \* how far the wall clock advances, in ticks
TicksPerSecond == 2  \* clock ticks in one second of time.time()
NumWorkers == 2      \* requests the HTTP server handles at the same time

Workers == 1..NumWorkers
UserTexts == {"hello"}

\* the reply of the language model to the t-th request it gets: replies are
\* told apart by the request they answer
Reply(t) == "reply " \o ToString(t)

\* ------------------------------------------------------------- constants
FRIDA_PROMPT == "You are Frida Kahlo"
welcome_message == "Hola! I am Frida Kahlo"
None == "None"

\* str(int(time.time())): the clock truncated to whole seconds, as a string
SessionIdAt(ticks) == ToString(ticks \div TicksPerSecond)
\* the ids requests carry: the ones start_session hands out, and the
\* default of data.get("session_id", "default")
SessionSeq == [k \in 1..(MaxTicks \div TicksPerSecond + 1) |-> ToString(k - 1)] \o <<"default">>
SessionIds == {SessionSeq[k] : k \in 1..Len(SessionSeq)}

Turn(role, content) == [role |-> role, content |-> content]

\* client.audio.speech.create(input = text).content
Speech(text) == <<"mp3", text>>
\* base64.b64encode(audio).decode("utf-8")
B64(audio) == <<"b64">> \o audio
NoAudio == <<>>

\* ---------------------------------------------------------- dictionaries
Has(d, k) == k \in DOMAIN d
Put(d, k, v) == [x \in DOMAIN d \cup {k} |-> IF x = k THEN v ELSE d[x]]
Del(d, k) == [x \in DOMAIN d \ {k} |-> d[x]]
EmptyDict == [x \in {} |-> 0]

VARIABLES
    now,               \* the last reading of the wall clock, in ticks
    sessions,          \* session id -> index of its history list in lists
    lists,             \* heap of list objects (conversation histories)
    response_threads,  \* session id -> index of its (thread, result_dict) in tasks
    tasks,             \* heap of background threads with their result_dict
    workers,           \* the request each server thread is handling
    delivered,         \* per task, how many check_response calls returned its result
    phase,             \* per session id, what the server last did about it (see Phases)
    recorder,          \* the activation of record_audio: its stream and its locals
    exit_call,         \* the activation of should_exit: its text and its locals
    filler,            \* the filler phrases get_filler and play_filler_statement returned
    timing,            \* the reply check_response lays out in time, and the table
    cli,               \* the command-line client's conversation loop (main)
    energy             \* the activation of get_rms: its frame and its result

\* the state of the functions that do not touch the dictionaries
aside == <<recorder, exit_call, filler, timing, cli, energy>>

vars == <<now, sessions, lists, response_threads, tasks, workers, delivered, phase, aside>>

\* a function that is not running
Off == [pc |-> "off"]

\* History variables, written and never read by the code's steps.
\*   none       nothing yet
\*   started    get_response started a generation          (thread.start())
\*   delivered  check_response returned its result
\*   ended      end_session answered that the session ended
\*   recreated  the ended session was created again, no generation started since
Phases == {"none", "started", "delivered", "ended", "recreated"}

\* ------------------------------------------------------------ list heap
\* One list per session and one per running thread can be alive, and one
\* more while an assignment replaces a list.  The number of a list is its
\* rank among the lists alive, in the order sessions and threads refer to
\* them, so that the heap does not depend on which lists were freed before.
ListIds == 1..(Cardinality(SessionIds) + MaxTasks + 1)

\* the thread still holds its conversation_history
HoldsList(task) == task.pc \in {"llm", "append_reply", "store"}

Referenced(l, sess, tsks) ==
    \/ \E s \in DOMAIN sess : sess[s] = l
    \/ \E t \in DOMAIN tsks : HoldsList(tsks[t]) /\ tsks[t].conversation_history = l

\* a new list object: a free slot
NewList == CHOOSE l \in ListIds : ~Referenced(l, sessions, tasks)

\* the references to lists, sessions first, 0 where there is none
Refs(sess, tsks) ==
    [k \in 1..Len(SessionSeq) |-> IF Has(sess, SessionSeq[k]) THEN sess[SessionSeq[k]] ELSE 0]
    \o [t \in 1..Len(tsks) |-> IF HoldsList(tsks[t]) THEN tsks[t].conversation_history ELSE 0]

RECURSIVE Alive(_, _)
\* the lists refs refers to, each once, in the order of their first reference
Alive(refs, seen) ==
    IF refs = <<>> THEN seen
    ELSE Alive(Tail(refs),
               IF Head(refs) = 0 \/ \E i \in 1..Len(seen) : seen[i] = Head(refs)
               THEN seen ELSE Append(seen, Head(refs)))

Rank(alive, l) == CHOOSE i \in 1..Len(alive) : alive[i] = l

\* the state after a step that changed what refers to which list: lists
\* nothing refers to are freed (reference counting) and the rest renumbered
Commit(sess, heap, tsks) ==
    LET alive == Alive(Refs(sess, tsks), <<>>)
    IN  /\ sessions' = [s \in DOMAIN sess |-> Rank(alive, sess[s])]
        /\ tasks' = [t \in DOMAIN tsks |->
                        IF HoldsList(tsks[t])
                        THEN [tsks[t] EXCEPT !.conversation_history = Rank(alive, @)]
                        ELSE tsks[t]]
        /\ lists' = [l \in ListIds |-> IF l <= Len(alive) THEN heap[alive[l]] ELSE <<>>]

\* ------------------------------------------------------------- responses
NoRet == [code |-> 0, body |-> "", text |-> None, audio |-> NoAudio]
Ret(code, body) == [code |-> code, body |-> body, text |-> None, audio |-> NoAudio]

Idle == [pc |-> "idle", op |-> "", session_id |-> None, user_text |-> None,
         task |-> 0, ret |-> NoRet]

\* a handler begins: the request's arguments are bound
Begin(op, session_id, user_text, pc) ==
    [pc |-> pc, op |-> op, session_id |-> session_id, user_text |-> user_text,
     task |-> 0, ret |-> NoRet]

\* a handler returns: the locals die, the response is on its way to the client
Return(wk, ret) ==
    [Idle EXCEPT !.pc = "return", !.op = wk.op, !.session_id = wk.session_id, !.ret = ret]

\* a handler that returns in its first step
Answer(op, session_id, ret) == Return(Begin(op, session_id, None, "return"), ret)

\* a session is created: start_session, or get_response for an unknown id
Created(session_id) ==
    [phase EXCEPT ![session_id] = IF @ = "ended" THEN "recreated" ELSE @]

\* ------------------------------------------------------------------ Init
\* the server's variables
server == <<now, sessions, lists, response_threads, tasks, workers, delivered, phase>>

\* the server after its module was loaded
ServerInit ==
    /\ now = 0
    /\ sessions = EmptyDict
    /\ lists = [l \in ListIds |-> <<>>]
    /\ response_threads = EmptyDict
    /\ tasks = <<>>
    /\ workers = [w \in Workers |-> Idle]
    /\ delivered = <<>>
    /\ phase = [s \in SessionIds |-> "none"]

Init ==
    /\ ServerInit
    /\ recorder = Off
    /\ exit_call = Off
    /\ filler = Off
    /\ timing = Off
    /\ cli = Off
    /\ energy = Off

\* the response reaches the client and the server thread is free again
respond(w) ==
    /\ workers[w].pc = "return"
    /\ workers' = [workers EXCEPT ![w] = Idle]
    /\ UNCHANGED <<now, sessions, lists, response_threads, tasks, delivered, phase, aside>>

\* ------------------------------------------------- generate_response_thread
\* The thread started by get_response, with the result_dict it shares with
\* the handlers.  pc is the statement the thread executes next.
NewTask(session_id, user_text) ==
    [pc |-> "get", session_id |-> session_id, user_text |-> user_text,
     conversation_history |-> 0, messages |-> <<>>, frida_response |-> None,
     text |-> None, audio |-> NoAudio, completed |-> FALSE, error |-> None]

TaskIds == 1..Len(tasks)

\* messages = [system prompt] + conversation_history + [user turn]
Messages(history, user_text) ==
    <<Turn("system", FRIDA_PROMPT)>> \o history \o <<Turn("user", user_text)>>

\* a thread that appends the user turn before it calls the language model
t_get_appends_user_turn(t) ==
    /\ tasks[t].pc = "get"
    /\ LET sid == tasks[t].session_id
           h == IF Has(sessions, sid) THEN sessions[sid] ELSE NewList
       IN  Commit(sessions,
                  [lists EXCEPT ![h] = Append(@, Turn("user", tasks[t].user_text))],
                  [tasks EXCEPT ![t].pc = "llm",
                                ![t].conversation_history = h,
                                ![t].messages = Messages(lists[h], tasks[t].user_text)])
    /\ UNCHANGED <<now, response_threads, workers, delivered, phase, aside>>

\* conversation_history = sessions.get(session_id, []) and the message list
\* built from it; the default is a fresh list no dictionary refers to
t_get(t) ==
    /\ tasks[t].pc = "get"
    /\ LET sid == tasks[t].session_id
           h == IF Has(sessions, sid) THEN sessions[sid] ELSE NewList
       IN  Commit(sessions, lists,
                  [tasks EXCEPT ![t].pc = "llm",
                                ![t].conversation_history = h,
                                ![t].messages = Messages(lists[h], tasks[t].user_text)])
    /\ UNCHANGED <<now, response_threads, workers, delivered, phase, aside>>

\* client.chat.completions.create returns frida_response, and
\* conversation_history.append({"role": "user", "content": user_text})
t_llm_ok(t) ==
    /\ tasks[t].pc = "llm"
    /\ tasks' = [tasks EXCEPT ![t].pc = "append_reply", ![t].messages = <<>>,
                              ![t].frida_response = Reply(t)]
    /\ lists' = [lists EXCEPT ![tasks[t].conversation_history] =
                     Append(@, Turn("user", tasks[t].user_text))]
    /\ UNCHANGED <<now, sessions, response_threads, workers, delivered, phase, aside>>

\* the thread dies of an exception nothing catches
Failed(task, error) ==
    [task EXCEPT !.pc = "failed", !.conversation_history = 0, !.messages = <<>>,
                 !.frida_response = None, !.error = error]

\* client.chat.completions.create raises
t_llm_raise(t) ==
    /\ tasks[t].pc = "llm"
    /\ Commit(sessions, lists, [tasks EXCEPT ![t] = Failed(@, "chat")])
    /\ UNCHANGED <<now, response_threads, workers, delivered, phase, aside>>

\* conversation_history.append({"role": "assistant", "content": frida_response})
t_append_reply(t) ==
    /\ tasks[t].pc = "append_reply"
    /\ lists' = [lists EXCEPT ![tasks[t].conversation_history] =
                     Append(@, Turn("assistant", tasks[t].frida_response))]
    /\ tasks' = [tasks EXCEPT ![t].pc = "store"]
    /\ UNCHANGED <<now, sessions, response_threads, workers, delivered, phase, aside>>

\* a thread that stores its history under the id "default"
t_store_under_default(t) ==
    /\ tasks[t].pc = "store"
    /\ Commit(Put(sessions, "default", tasks[t].conversation_history), lists,
              [tasks EXCEPT ![t].pc = "tts", ![t].conversation_history = 0])
    /\ UNCHANGED <<now, response_threads, workers, delivered, phase, aside>>

\* sessions[session_id] = conversation_history
t_store(t) ==
    /\ tasks[t].pc = "store"
    /\ Commit(Put(sessions, tasks[t].session_id, tasks[t].conversation_history), lists,
              [tasks EXCEPT ![t].pc = "tts", ![t].conversation_history = 0])
    /\ UNCHANGED <<now, response_threads, workers, delivered, phase, aside>>

\* the thread that raises the completed flag together with the text, before
\* the audio is stored
t_tts_ok_completes_early(t) ==
    /\ tasks[t].pc = "tts"
    /\ tasks' = [tasks EXCEPT ![t].pc = "audio", ![t].text = tasks[t].frida_response,
                              ![t].completed = TRUE]
    /\ UNCHANGED <<now, sessions, lists, response_threads, workers, delivered, phase, aside>>

\* speech_audio = generate_audio(frida_response) returns, and
\* result_dict["text"] = frida_response
t_tts_ok(t) ==
    /\ tasks[t].pc = "tts"
    /\ tasks' = [tasks EXCEPT ![t].pc = "audio", ![t].text = tasks[t].frida_response]
    /\ UNCHANGED <<now, sessions, lists, response_threads, workers, delivered, phase, aside>>

\* generate_audio raises
t_tts_raise(t) ==
    /\ tasks[t].pc = "tts"
    /\ tasks' = [tasks EXCEPT ![t] = Failed(@, "speech")]
    /\ UNCHANGED <<now, sessions, lists, response_threads, workers, delivered, phase, aside>>

\* result_dict["audio"] = speech_audio
t_audio(t) ==
    /\ tasks[t].pc = "audio"
    /\ tasks' = [tasks EXCEPT ![t].pc = "completed", ![t].audio = Speech(tasks[t].frida_response)]
    /\ UNCHANGED <<now, sessions, lists, response_threads, workers, delivered, phase, aside>>

\* result_dict["completed"] = True, and the thread ends
t_completed(t) ==
    /\ tasks[t].pc = "completed"
    /\ tasks' = [tasks EXCEPT ![t].pc = "done", ![t].completed = TRUE]
    /\ UNCHANGED <<now, sessions, lists, response_threads, workers, delivered, phase, aside>>

generate_response_thread(t) ==
    \/ t_get(t)
    \/ t_llm_ok(t)
    \/ t_llm_raise(t)
    \/ t_append_reply(t)
    \/ t_store(t)
    \/ t_tts_ok(t)
    \/ t_tts_raise(t)
    \/ t_audio(t)
    \/ t_completed(t)

\* ------------------------------------------------------------ start_session
\* session_id = str(int(time.time())); sessions[session_id] = []
\* time.time() reads the clock, which never runs backwards: now is its last reading
ss_create(w, time) ==
    /\ workers[w].pc = "idle"
    /\ time >= now
    /\ now' = time
    /\ Commit(Put(sessions, SessionIdAt(time), NewList), lists, tasks)
    /\ workers' = [workers EXCEPT ![w] = Begin("start_session", SessionIdAt(time), None, "ss_audio")]
    /\ phase' = Created(SessionIdAt(time))
    /\ UNCHANGED <<response_threads, delivered, aside>>

\* welcome_audio = generate_audio(welcome_message) raises: 500, the session stays
ss_audio_raise(w) ==
    /\ workers[w].pc = "ss_audio"
    /\ workers' = [workers EXCEPT ![w] = Return(@, Ret(500, "error"))]
    /\ UNCHANGED <<now, sessions, lists, response_threads, tasks, delivered, phase, aside>>

\* generate_audio returns; sessions[session_id].append(welcome turn)
\* (KeyError: 500); the response carries the id, the text and the audio
ss_append(w) ==
    /\ workers[w].pc = "ss_audio"
    /\ LET sid == workers[w].session_id
       IN  IF Has(sessions, sid)
           THEN /\ lists' = [lists EXCEPT ![sessions[sid]] =
                                 Append(@, Turn("assistant", welcome_message))]
                /\ workers' = [workers EXCEPT ![w] =
                      Return(@, [code |-> 200, body |-> "session", text |-> welcome_message,
                                 audio |-> B64(Speech(welcome_message))])]
           ELSE /\ workers' = [workers EXCEPT ![w] = Return(@, Ret(500, "error"))]
                /\ UNCHANGED lists
    /\ UNCHANGED <<now, sessions, response_threads, tasks, delivered, phase, aside>>

start_session(w) ==
    \/ \E time \in 0..MaxTicks : ss_create(w, time)
    \/ ss_audio_raise(w)
    \/ ss_append(w)

\* ------------------------------------------------------------- get_response
\* threads that calls in flight are still going to start
Starting == Cardinality({w \in Workers : workers[w].pc \in {"gr_create", "gr_spawn"}})

\* the request carries no "text": 400
gr_no_text(w, session_id) ==
    /\ workers[w].pc = "idle"
    /\ workers' = [workers EXCEPT ![w] = Answer("get_response", session_id, Ret(400, "no_text"))]
    /\ UNCHANGED <<now, sessions, lists, response_threads, tasks, delivered, phase, aside>>

\* if session_id not in sessions
gr_check(w, session_id, user_text) ==
    /\ workers[w].pc = "idle"
    /\ workers' = [workers EXCEPT ![w] =
          Begin("get_response", session_id, user_text,
                IF Has(sessions, session_id) THEN "gr_spawn" ELSE "gr_create")]
    /\ UNCHANGED <<now, sessions, lists, response_threads, tasks, delivered, phase, aside>>

\* sessions[session_id] = []
gr_create(w) ==
    /\ workers[w].pc = "gr_create"
    /\ Commit(Put(sessions, workers[w].session_id, NewList), lists, tasks)
    /\ workers' = [workers EXCEPT ![w].pc = "gr_spawn"]
    /\ phase' = Created(workers[w].session_id)
    /\ UNCHANGED <<now, response_threads, delivered, aside>>

\* result_dict = {...}; thread = Thread(...); thread.start()
gr_spawn(w) ==
    /\ workers[w].pc = "gr_spawn"
    /\ tasks' = Append(tasks, NewTask(workers[w].session_id, workers[w].user_text))
    /\ delivered' = Append(delivered, 0)
    /\ workers' = [workers EXCEPT ![w].pc = "gr_store", ![w].task = Len(tasks) + 1]
    /\ phase' = [phase EXCEPT ![workers[w].session_id] = "started"]
    /\ UNCHANGED <<now, sessions, lists, response_threads, aside>>

\* get_response that keeps the entry of a task that is still in the map
gr_store_keeps_first(w) ==
    /\ workers[w].pc = "gr_store"
    /\ response_threads' =
          IF Has(response_threads, workers[w].session_id) THEN response_threads
          ELSE Put(response_threads, workers[w].session_id, workers[w].task)
    /\ workers' = [workers EXCEPT ![w] = Return(@, Ret(200, "processing"))]
    /\ UNCHANGED <<now, sessions, lists, tasks, delivered, phase, aside>>

\* response_threads[session_id] = (thread, result_dict); return "processing"
gr_store(w) ==
    /\ workers[w].pc = "gr_store"
    /\ response_threads' = Put(response_threads, workers[w].session_id, workers[w].task)
    /\ workers' = [workers EXCEPT ![w] = Return(@, Ret(200, "processing"))]
    /\ UNCHANGED <<now, sessions, lists, tasks, delivered, phase, aside>>

\* limit bounds the threads the requests start
get_response(w, limit) ==
    \/ \E s \in SessionIds : gr_no_text(w, s)
    \/ \E s \in SessionIds, u \in UserTexts :
          Len(tasks) + Starting < limit /\ gr_check(w, s, u)
    \/ gr_create(w)
    \/ gr_spawn(w)
    \/ gr_store(w)

\* ----------------------------------------------------------- check_response
\* if session_id not in response_threads: 404
cr_not_found(w, session_id) ==
    /\ workers[w].pc = "idle"
    /\ ~Has(response_threads, session_id)
    /\ workers' = [workers EXCEPT ![w] = Answer("check_response", session_id, Ret(404, "no_response"))]
    /\ UNCHANGED <<now, sessions, lists, response_threads, tasks, delivered, phase, aside>>

cr_found(w, session_id) ==
    /\ workers[w].pc = "idle"
    /\ Has(response_threads, session_id)
    /\ workers' = [workers EXCEPT ![w] = Begin("check_response", session_id, None, "cr_load")]
    /\ UNCHANGED <<now, sessions, lists, response_threads, tasks, delivered, phase, aside>>

\* thread, result_dict = response_threads[session_id]   (KeyError: 500)
cr_load(w) ==
    /\ workers[w].pc = "cr_load"
    /\ LET wk == workers[w]
       IN  workers' = [workers EXCEPT ![w] =
             IF Has(response_threads, wk.session_id)
             THEN [wk EXCEPT !.pc = "cr_test", !.task = response_threads[wk.session_id]]
             ELSE Return(wk, Ret(500, "error"))]
    /\ UNCHANGED <<now, sessions, lists, response_threads, tasks, delivered, phase, aside>>

\* if not result_dict["completed"]: "processing"; else read text and audio
cr_test(w) ==
    /\ workers[w].pc = "cr_test"
    /\ LET wk == workers[w]
           result_dict == tasks[wk.task]
       IN  workers' = [workers EXCEPT ![w] =
             IF ~result_dict.completed
             THEN Return(wk, Ret(200, "not_completed"))
             ELSE [wk EXCEPT !.pc = "cr_del",
                             !.ret = [code |-> 0, body |-> "", text |-> result_dict.text,
                                      audio |-> B64(result_dict.audio)]]]
    /\ UNCHANGED <<now, sessions, lists, response_threads, tasks, delivered, phase, aside>>

\* check_response that returns the result and forgets to drop the entry
cr_del_keeps_entry(w) ==
    /\ workers[w].pc = "cr_del"
    /\ LET wk == workers[w]
       IN  /\ delivered' = [delivered EXCEPT ![wk.task] = @ + 1]
           /\ phase' = [phase EXCEPT ![wk.session_id] = "delivered"]
           /\ workers' = [workers EXCEPT ![w] =
                 Return(wk, [wk.ret EXCEPT !.code = 200, !.body = "completed"])]
    /\ UNCHANGED <<now, sessions, lists, response_threads, tasks, aside>>

\* del response_threads[session_id] (KeyError: 500); return the result
cr_del(w) ==
    /\ workers[w].pc = "cr_del"
    /\ LET wk == workers[w]
       IN  IF Has(response_threads, wk.session_id)
           THEN /\ response_threads' = Del(response_threads, wk.session_id)
                /\ delivered' = [delivered EXCEPT ![wk.task] = @ + 1]
                /\ phase' = [phase EXCEPT ![wk.session_id] = "delivered"]
                /\ workers' = [workers EXCEPT ![w] =
                      Return(wk, [wk.ret EXCEPT !.code = 200, !.body = "completed"])]
           ELSE /\ workers' = [workers EXCEPT ![w] = Return(wk, Ret(500, "error"))]
                /\ UNCHANGED <<response_threads, delivered, phase>>
    /\ UNCHANGED <<now, sessions, lists, tasks, aside>>

check_response(w) ==
    \/ \E s \in SessionIds : cr_not_found(w, s)
    \/ \E s \in SessionIds : cr_found(w, s)
    \/ cr_load(w)
    \/ cr_test(w)
    \/ cr_del(w)

\* -------------------------------------------------------------- end_session
\* session_id = data.get("session_id") may be None
EndArgs == SessionIds \cup {None}

\* end_session that drops the task entry of an id it does not know
es_not_found_drops_task(w, session_id) ==
    /\ workers[w].pc = "idle"
    /\ ~(session_id # None /\ Has(sessions, session_id))
    /\ response_threads' = Del(response_threads, session_id)
    /\ workers' = [workers EXCEPT ![w] = Answer("end_session", session_id, Ret(404, "no_session"))]
    /\ UNCHANGED <<now, sessions, lists, tasks, delivered, phase, aside>>

\* not (session_id and session_id in sessions): 404
es_not_found(w, session_id) ==
    /\ workers[w].pc = "idle"
    /\ ~(session_id # None /\ Has(sessions, session_id))
    /\ workers' = [workers EXCEPT ![w] = Answer("end_session", session_id, Ret(404, "no_session"))]
    /\ UNCHANGED <<now, sessions, lists, response_threads, tasks, delivered, phase, aside>>

es_found(w, session_id) ==
    /\ workers[w].pc = "idle"
    /\ session_id # None /\ Has(sessions, session_id)
    /\ workers' = [workers EXCEPT ![w] = Begin("end_session", session_id, None, "es_del_session")]
    /\ UNCHANGED <<now, sessions, lists, response_threads, tasks, delivered, phase, aside>>

\* del sessions[session_id]   (KeyError: 500)
es_del_session(w) ==
    /\ workers[w].pc = "es_del_session"
    /\ LET sid == workers[w].session_id
       IN  IF Has(sessions, sid)
           THEN /\ Commit(Del(sessions, sid), lists, tasks)
                /\ workers' = [workers EXCEPT ![w].pc = "es_check_thread"]
           ELSE /\ workers' = [workers EXCEPT ![w] = Return(@, Ret(500, "error"))]
                /\ UNCHANGED <<sessions, lists, tasks>>
    /\ UNCHANGED <<now, response_threads, delivered, phase, aside>>

\* end_session that removes the session and leaves its task entry
es_check_thread_keeps_task(w) ==
    /\ workers[w].pc = "es_check_thread"
    /\ phase' = [phase EXCEPT ![workers[w].session_id] = "ended"]
    /\ workers' = [workers EXCEPT ![w] = Return(@, Ret(200, "ended"))]
    /\ UNCHANGED <<now, sessions, lists, response_threads, tasks, delivered, aside>>

\* if session_id in response_threads; without an entry the handler returns
es_check_thread(w) ==
    /\ workers[w].pc = "es_check_thread"
    /\ LET sid == workers[w].session_id
       IN  IF Has(response_threads, sid)
           THEN /\ workers' = [workers EXCEPT ![w].pc = "es_del_thread"]
                /\ UNCHANGED phase
           ELSE /\ workers' = [workers EXCEPT ![w] = Return(@, Ret(200, "ended"))]
                /\ phase' = [phase EXCEPT ![sid] = "ended"]
    /\ UNCHANGED <<now, sessions, lists, response_threads, tasks, delivered, aside>>

\* del response_threads[session_id] (KeyError: 500); return "ended"
es_del_thread(w) ==
    /\ workers[w].pc = "es_del_thread"
    /\ LET sid == workers[w].session_id
       IN  IF Has(response_threads, sid)
           THEN /\ response_threads' = Del(response_threads, sid)
                /\ workers' = [workers EXCEPT ![w] = Return(@, Ret(200, "ended"))]
                /\ phase' = [phase EXCEPT ![sid] = "ended"]
           ELSE /\ workers' = [workers EXCEPT ![w] = Return(@, Ret(500, "error"))]
                /\ UNCHANGED <<response_threads, phase>>
    /\ UNCHANGED <<now, sessions, lists, tasks, delivered, aside>>

end_session(w) ==
    \/ \E s \in EndArgs : es_not_found(w, s)
    \/ \E s \in EndArgs : es_found(w, s)
    \/ es_del_session(w)
    \/ es_check_thread(w)
    \/ es_del_thread(w)

\* ---------------------------------------------------------------- get_audio
\* not session_id or session_id not in response_threads: 404
ga_not_found(w, session_id) ==
    /\ workers[w].pc = "idle"
    /\ session_id = None \/ ~Has(response_threads, session_id)
    /\ workers' = [workers EXCEPT ![w] = Answer("get_audio", session_id, Ret(404, "no_audio"))]
    /\ UNCHANGED <<now, sessions, lists, response_threads, tasks, delivered, phase, aside>>

ga_found(w, session_id) ==
    /\ workers[w].pc = "idle"
    /\ session_id # None /\ Has(response_threads, session_id)
    /\ workers' = [workers EXCEPT ![w] = Begin("get_audio", session_id, None, "ga_load")]
    /\ UNCHANGED <<now, sessions, lists, response_threads, tasks, delivered, phase, aside>>

\* _, result_dict = response_threads[session_id]   (KeyError: 500)
ga_load(w) ==
    /\ workers[w].pc = "ga_load"
    /\ LET wk == workers[w]
       IN  workers' = [workers EXCEPT ![w] =
             IF Has(response_threads, wk.session_id)
             THEN [wk EXCEPT !.pc = "ga_test", !.task = response_threads[wk.session_id]]
             ELSE Return(wk, Ret(500, "error"))]
    /\ UNCHANGED <<now, sessions, lists, response_threads, tasks, delivered, phase, aside>>

\* get_audio that drops the task entry once it has returned the audio
ga_test_consumes(w) ==
    /\ workers[w].pc = "ga_test"
    /\ LET wk == workers[w]
           result_dict == tasks[wk.task]
       IN  IF ~result_dict.completed \/ result_dict.audio = NoAudio
           THEN /\ workers' = [workers EXCEPT ![w] = Return(wk, Ret(404, "not_ready"))]
                /\ UNCHANGED response_threads
           ELSE /\ workers' = [workers EXCEPT ![w] =
                      Return(wk, [code |-> 200, body |-> "audio", text |-> None,
                                  audio |-> result_dict.audio])]
                /\ response_threads' = Del(response_threads, wk.session_id)
    /\ UNCHANGED <<now, sessions, lists, tasks, delivered, phase, aside>>

\* not completed or not audio: 404; else the audio bytes
ga_test(w) ==
    /\ workers[w].pc = "ga_test"
    /\ LET wk == workers[w]
           result_dict == tasks[wk.task]
       IN  workers' = [workers EXCEPT ![w] =
             IF ~result_dict.completed \/ result_dict.audio = NoAudio
             THEN Return(wk, Ret(404, "not_ready"))
             ELSE Return(wk, [code |-> 200, body |-> "audio", text |-> None,
                              audio |-> result_dict.audio])]
    /\ UNCHANGED <<now, sessions, lists, response_threads, tasks, delivered, phase, aside>>

get_audio(w) ==
    \/ \E s \in EndArgs : ga_not_found(w, s)
    \/ \E s \in EndArgs : ga_found(w, s)
    \/ ga_load(w)
    \/ ga_test(w)

\* ----------------------------------------------------------- specifications
Handler(w, limit) ==
    \/ start_session(w)
    \/ get_response(w, limit)
    \/ check_response(w)
    \/ end_session(w)
    \/ get_audio(w)
    \/ respond(w)

Threads == \E t \in TaskIds : generate_response_thread(t)

\* the server handling several requests at once
Next ==
    \/ Threads
    \/ \E w \in Workers : Handler(w, MaxRacing)

Spec == Init /\ [][Next]_vars

\* one client that waits for each response before its next call; the
\* background threads still run concurrently with its calls
SeqNext ==
    \/ Threads
    \/ Handler(1, MaxTasks)

SeqSpec == Init /\ [][SeqNext]_vars

TypeOK ==
    /\ now \in 0..MaxTicks
    /\ DOMAIN sessions \subseteq SessionIds
    /\ \A s \in DOMAIN sessions : sessions[s] \in ListIds
    /\ DOMAIN response_threads \subseteq SessionIds
    /\ \A s \in DOMAIN response_threads : response_threads[s] \in TaskIds
    /\ Len(tasks) <= MaxTasks
    /\ Len(delivered) = Len(tasks)
    /\ \A l \in ListIds : Referenced(l, sessions, tasks) \/ lists[l] = <<>>
    /\ phase \in [SessionIds -> Phases]

\* ------------------------------------------------------------ vocabulary
\* the histories the session store holds, by content
Stored(sess, heap) == [s \in DOMAIN sess |-> heap[sess[s]]]

IsPrefix(a, b) == Len(a) <= Len(b) /\ SubSeq(b, 1, Len(a)) = a

\* in this step worker w answers a call of op about session_id
Answers(w, op, session_id) ==
    /\ workers[w].pc # "return"
    /\ workers'[w].pc = "return"
    /\ workers'[w].op = op
    /\ workers'[w].session_id = session_id

\* in this step worker w takes up a call of op about session_id
Calls(w, op, session_id) ==
    /\ workers[w].pc = "idle"
    /\ workers'[w].op = op
    /\ workers'[w].session_id = session_id

\* worker w has answered a call of op about session_id, the answer is on its way
Answered(w, op, session_id) ==
    /\ workers[w].pc = "return"
    /\ workers[w].op = op
    /\ workers[w].session_id = session_id

\* in this step the thread of task t executes a statement
ThreadStep(t) == tasks'[t].pc # tasks[t].pc

\* the turns with this role in the list heap, the welcome turns apart
TurnsOf(role) ==
    UNION {{<<l, i>> : i \in {j \in 1..Len(lists[l]) :
                                  /\ lists[l][j].role = role
                                  /\ lists[l][j].content # welcome_message}} : l \in ListIds}

\* the thread got the reply of the language model
LLMReturned(task) ==
    \/ task.pc \in {"append_reply", "store", "tts", "audio", "completed", "done"}
    \/ task.pc = "failed" /\ task.error = "speech"

\* the thread appended the reply to its history
ReplyAppended(task) ==
    \/ task.pc \in {"store", "tts", "audio", "completed", "done"}
    \/ task.pc = "failed" /\ task.error = "speech"

\* ------------------------------------------------------------------ claims
\* C1: one client using one session, one call at a time: a poll answered
\* while the generation it asks about has not completed is answered
\* 'processing'; a poll answered once it has completed gets the completed
\* result (the reply and its audio) and consumes the task; after that a poll
\* is answered not_found, so the result is returned exactly once.
C1_ResultExactlyOnce ==
    [][\A w \in Workers, s \in SessionIds :
          Answers(w, "check_response", s) =>
              LET r == workers'[w].ret
              IN  CASE phase[s] = "started" ->
                         /\ Has(response_threads, s)
                         /\ LET t == response_threads[s]
                            IN  IF tasks[t].pc = "done"
                                THEN /\ r = [code |-> 200, body |-> "completed",
                                             text |-> Reply(t),
                                             audio |-> B64(Speech(Reply(t)))]
                                     /\ ~Has(response_threads', s)
                                     /\ delivered'[t] = 1
                                ELSE r = Ret(200, "not_completed")
                    [] phase[s] = "delivered" -> r = Ret(404, "no_response")
                    [] OTHER -> TRUE]_vars

\* the result of a task was delivered, and the next poll was answered not_found
C1_Witness ==
    \E s \in SessionIds, t \in TaskIds :
        /\ phase[s] = "delivered"
        /\ tasks[t].session_id = s
        /\ delivered[t] = 1
        /\ Answered(1, "check_response", s)
        /\ workers[1].ret = Ret(404, "no_response")

\* C2: when the language model or the speech synthesis fails, the task
\* becomes failed in a way the client can see: a poll about a task whose
\* thread died is not answered 'processing'.
C2_FailureIsObservable ==
    [][\A w \in Workers, s \in SessionIds :
          (Answers(w, "check_response", s) /\ workers[w].pc = "cr_test"
              /\ tasks[workers[w].task].pc = "failed")
          => workers'[w].ret.body # "not_completed"]_vars

\* C3: a get_response for a session that has an outstanding task is rejected:
\* the call is answered at once with a 4xx status, starts no generation and
\* leaves the task entry of the session as it is.
C3_OutstandingTaskRejects ==
    [][\A w \in Workers, s \in SessionIds :
          (Calls(w, "get_response", s) /\ Has(response_threads, s))
          => /\ workers'[w].pc = "return"
             /\ workers'[w].ret.code \in 400..499
             /\ UNCHANGED <<response_threads, tasks>>]_vars

\* C4: a completed result is delivered at most once whatever the
\* interleaving of check_response calls, and a call that finds the task
\* consumed by another call is answered (not_found), it does not fail.
C4_AtMostOnceAndNoFailure ==
    /\ \A t \in TaskIds : delivered[t] <= 1
    /\ \A w \in Workers, s \in SessionIds :
          (Answered(w, "check_response", s) /\ phase[s] = "delivered")
          => workers[w].ret.code # 500

\* C5: end_session for an id the session store does not hold is answered
\* not-found and changes neither the sessions, their histories, the task
\* entries nor the tasks.
C5_EndUnknownSession ==
    [][\A w \in Workers, s \in EndArgs :
          (Calls(w, "end_session", s) /\ ~Has(sessions, s))
          => /\ workers'[w].pc = "return"
             /\ workers'[w].ret = Ret(404, "no_session")
             /\ UNCHANGED <<sessions, lists, response_threads, tasks>>]_vars

\* end_session was answered not-found for an id that is not stored while a
\* task entry is still there
C5_Witness ==
    \E w \in Workers, s \in SessionIds :
        /\ Answered(w, "end_session", s)
        /\ workers[w].ret = Ret(404, "no_session")
        /\ ~Has(sessions, s)
        /\ DOMAIN response_threads # {}

\* C6: end_session for a stored session removes the session and, by the
\* time it answers, the task entry of the session; from that answer until a
\* get_response starts a new generation for the id there is no entry for it,
\* also when the generation that was in flight completes, and check_response
\* and get_audio for the id are answered not_found.
C6_EndSessionDiscardsTask ==
    /\ [](\A s \in SessionIds :
             phase[s] \in {"ended", "recreated"} => ~Has(response_threads, s))
    /\ [][\A w \in Workers, s \in SessionIds :
             /\ (workers[w].pc = "es_del_session" /\ workers[w].session_id = s
                    /\ workers'[w].pc = "es_check_thread")
                => (Has(sessions, s) /\ ~Has(sessions', s))
             /\ (Answers(w, "end_session", s) /\ workers'[w].ret.code = 200)
                => (~Has(response_threads', s) /\ phase'[s] = "ended")
             /\ ((Answers(w, "check_response", s) \/ Answers(w, "get_audio", s))
                    /\ phase[s] \in {"ended", "recreated"})
                => workers'[w].ret.code = 404]_vars

\* a session was ended with its generation in flight, the generation
\* completed undelivered, and a later poll was answered not_found
C6_Witness ==
    \E s \in SessionIds, t \in TaskIds :
        /\ phase[s] = "ended"
        /\ tasks[t].session_id = s
        /\ tasks[t].pc = "done"
        /\ delivered[t] = 0
        /\ Answered(1, "check_response", s)
        /\ workers[1].ret = Ret(404, "no_response")

\* C7: once end_session has answered for a session, the id stays out of the
\* session store until start_session or get_response creates it again, and
\* until a new generation is started for it no step of a background thread
\* changes the session store: no id is added and no stored history is
\* replaced or extended.
C7_StaleTaskLeavesNoTrace ==
    /\ [](\A s \in SessionIds : phase[s] = "ended" => ~Has(sessions, s))
    /\ [][\A t \in TaskIds :
             (ThreadStep(t) /\ phase[tasks[t].session_id] \in {"ended", "recreated"})
             => Stored(sessions', lists') = Stored(sessions, lists)]_vars

\* C8: while a session is stored its history only grows at the end: every
\* step keeps the history it had as a prefix of the history it has, and only
\* end_session takes a session out of the store.
C8_HistoryAppendOnly ==
    [][\A s \in SessionIds :
          Has(sessions, s) =>
              IF Has(sessions', s)
              THEN IsPrefix(Stored(sessions, lists)[s], Stored(sessions', lists')[s])
              ELSE \E w \in Workers : /\ workers[w].op = "end_session"
                                      /\ workers[w].session_id = s
                                      /\ workers[w].pc = "es_del_session"]_vars

\* C9: session ids are unique: two start_session calls are never answered
\* with the same id, and start_session never takes an id the store holds,
\* so it never resets the history of a live session.
C9_SessionIdsUnique ==
    /\ [](\A w1, w2 \in Workers :
             (/\ w1 # w2
              /\ workers[w1].pc = "return" /\ workers[w1].op = "start_session"
              /\ workers[w2].pc = "return" /\ workers[w2].op = "start_session"
              /\ workers[w1].ret.code = 200 /\ workers[w2].ret.code = 200)
             => workers[w1].session_id # workers[w2].session_id)
    /\ [][\A w \in Workers, s \in SessionIds :
             Calls(w, "start_session", s) => ~Has(sessions, s)]_vars

threshold == 300
max_chunks == 6             \* int(sample_rate / chunk * max_seconds)
num_pre_buffer_chunks == 2  \* int(0.5 * sample_rate / chunk)
silence_chunks == 2         \* the chunks that last silence_limit seconds

\* energies below, at and above the threshold
Energies == {threshold - 1, threshold, threshold + 1}

\* record_audio is called: the locals before the loop
NewRecording(stream, chunks, pre, limit) ==
    [pc |-> "loop", stream |-> stream, max_chunks |-> chunks,
     num_pre_buffer_chunks |-> pre, silence_chunks |-> limit,
     i |-> 0, frames |-> <<>>, pre_buffer |-> <<>>, silent_chunks |-> 0,
     audio_started |-> FALSE, result |-> "", wav |-> <<>>]

\* a loop that takes a chunk at the threshold for speech
ra_wait_at_threshold ==
    /\ recorder.pc = "loop"
    /\ recorder.i < recorder.max_chunks
    /\ ~recorder.audio_started
    /\ LET data == recorder.i + 1
           rms == recorder.stream[data]
           appended == Append(recorder.pre_buffer, data)
           pre_buffer == IF Len(appended) > recorder.num_pre_buffer_chunks
                         THEN Tail(appended) ELSE appended
       IN  recorder' =
             IF rms >= threshold
             THEN [recorder EXCEPT !.i = data, !.pre_buffer = pre_buffer,
                                   !.audio_started = TRUE,
                                   !.frames = (@ \o pre_buffer) \o <<data>>,
                                   !.silent_chunks = 0]
             ELSE [recorder EXCEPT !.i = data, !.pre_buffer = pre_buffer]
    /\ UNCHANGED <<server, exit_call, filler, timing, cli, energy>>

\* one pass of the loop before speech: the chunk goes to the pre-buffer, which
\* drops its oldest chunk when longer than its limit; a chunk above the
\* threshold starts the recording with the pre-buffer and the chunk
ra_wait ==
    /\ recorder.pc = "loop"
    /\ recorder.i < recorder.max_chunks
    /\ ~recorder.audio_started
    /\ LET data == recorder.i + 1
           rms == recorder.stream[data]
           appended == Append(recorder.pre_buffer, data)
           pre_buffer == IF Len(appended) > recorder.num_pre_buffer_chunks
                         THEN Tail(appended) ELSE appended
       IN  recorder' =
             IF rms > threshold
             THEN [recorder EXCEPT !.i = data, !.pre_buffer = pre_buffer,
                                   !.audio_started = TRUE,
                                   !.frames = (@ \o pre_buffer) \o <<data>>,
                                   !.silent_chunks = 0]
             ELSE [recorder EXCEPT !.i = data, !.pre_buffer = pre_buffer]
    /\ UNCHANGED <<server, exit_call, filler, timing, cli, energy>>

\* one pass of the loop after speech started: the chunk is recorded; chunks
\* below the threshold are counted and end the loop at the silence limit,
\* any other chunk restarts the count
ra_record ==
    /\ recorder.pc = "loop"
    /\ recorder.i < recorder.max_chunks
    /\ recorder.audio_started
    /\ LET data == recorder.i + 1
           rms == recorder.stream[data]
           rec == [recorder EXCEPT !.i = data, !.frames = Append(@, data)]
       IN  recorder' =
             IF rms < threshold
             THEN [rec EXCEPT !.silent_chunks = @ + 1,
                              !.pc = IF rec.silent_chunks + 1 >= rec.silence_chunks
                                     THEN "break" ELSE "loop"]
             ELSE [rec EXCEPT !.silent_chunks = 0]
    /\ UNCHANGED <<server, exit_call, filler, timing, cli, energy>>

\* a function that only returns after the silence limit ended the loop
ra_return_after_silence_only ==
    /\ recorder.pc = "break"
    /\ recorder' = [recorder EXCEPT !.pc = "done", !.result = "file",
                                    !.wav = recorder.frames]
    /\ UNCHANGED <<server, exit_call, filler, timing, cli, energy>>

\* after the loop: None without speech, else the file with the frames
ra_return ==
    /\ \/ recorder.pc = "break"
       \/ recorder.pc = "loop" /\ recorder.i = recorder.max_chunks
    /\ recorder' =
          IF ~recorder.audio_started
          THEN [recorder EXCEPT !.pc = "done", !.result = "None"]
          ELSE [recorder EXCEPT !.pc = "done", !.result = "file", !.wav = recorder.frames]
    /\ UNCHANGED <<server, exit_call, filler, timing, cli, energy>>

record_audio == ra_wait \/ ra_record \/ ra_return

\* record_audio on any stream of max_chunks chunks
VadInit ==
    /\ ServerInit
    /\ recorder \in {NewRecording(stream, max_chunks, num_pre_buffer_chunks, silence_chunks) :
                        stream \in [1..max_chunks -> Energies]}
    /\ exit_call = Off
    /\ filler = Off
    /\ timing = Off
    /\ cli = Off
    /\ energy = Off

VadSpec == VadInit /\ [][record_audio]_vars

\* a stream louder than the threshold from chunk 10 to chunk 40, and at or
\* below it before and after
SpeechFrom10To40(before, after) ==
    [k \in 1..50 |-> IF k \in 10..40 THEN threshold + 1
                     ELSE IF k < 10 THEN before ELSE after]

\* record_audio on such a stream, with a silence limit of 5 chunks
Vad1040Init ==
    /\ ServerInit
    /\ recorder \in {NewRecording(SpeechFrom10To40(before, after), 50,
                                  num_pre_buffer_chunks, 5) :
                        before \in {threshold - 1, threshold},
                        after \in {threshold - 1, threshold}}
    /\ exit_call = Off
    /\ filler = Off
    /\ timing = Off
    /\ cli = Off
    /\ energy = Off

Vad1040Spec == Vad1040Init /\ [][record_audio]_vars

\* the chunk that started the recording: the first one above the threshold
Trigger == CHOOSE k \in 1..recorder.i :
              /\ recorder.stream[k] > threshold
              /\ \A j \in 1..(k - 1) : recorder.stream[j] <= threshold

\* the chunks from a to b in stream order
Chunks(a, b) == [j \in 1..(b - a + 1) |-> a + j - 1]

\* C12: record_audio ends with one of two results: None exactly when none of
\* the chunks it read, up to the maximum duration, was above the threshold,
\* and a file otherwise; once the recording started the result is a file.
C12_NoSpeechIffNeverAbove ==
    recorder.pc = "done" =>
        /\ recorder.result \in {"None", "file"}
        /\ recorder.result = "None"
             <=> \A k \in 1..recorder.i : recorder.stream[k] <= threshold
        /\ recorder.result = "None" => recorder.i = recorder.max_chunks
        /\ recorder.audio_started => recorder.result = "file"

\* record_audio returned None on a stream that reached the threshold without
\* passing it
C12_Witness ==
    /\ recorder.pc = "done"
    /\ recorder.result = "None"
    /\ \E k \in 1..recorder.i : recorder.stream[k] = threshold

\* C13: a returned recording has at least one chunk and holds, in stream
\* order and directly before the chunk that started it, the
\* min(num_pre_buffer_chunks, k) chunks read just before that chunk, k being
\* the number of chunks read before it.
C13_PreRollKept ==
    (recorder.pc = "done" /\ recorder.result = "file") =>
        LET k == Trigger - 1
            m == IF recorder.num_pre_buffer_chunks < k
                 THEN recorder.num_pre_buffer_chunks ELSE k
        IN  /\ Len(recorder.wav) >= 1
            /\ \E p \in 1..Len(recorder.wav) :
                  /\ p + m <= Len(recorder.wav)
                  /\ SubSeq(recorder.wav, p, p + m) = Chunks(Trigger - m, Trigger)

\* C14: on a stream above the threshold exactly from chunk 10 to chunk 40,
\* with a silence limit of 5 chunks, no chunk after chunk 45 is read and the
\* recording starts no later than chunk 10 - num_pre_buffer_chunks.
C14_StopsAndKeepsPreRoll ==
    /\ recorder.i <= 45
    /\ (recorder.pc = "done" /\ recorder.result = "file")
       => Head(recorder.wav) <= 10 - recorder.num_pre_buffer_chunks

\* ---------------------------------------------------------------- should_exit
\* A text is the sequence of its words and punctuation marks, written with
\* one space between words; a sentence is a sequence of words.  What the
\* code asks of strings (lower(), ==, in) is answered word by word.
EXIT_PHRASES ==
    {<<"goodbye">>, <<"bye">>, <<"exit">>, <<"quit">>, <<"end", "conversation">>, <<"stop">>}
THANK_PHRASES == {<<"thank", "you">>, <<"thanks">>}
q_words == {"what", "why", "how", "when", "where", "who", "can"}
continuation_words == {"more", "also", "another", "tell", "about"}

\* the characters re.split(r"[.!?;]+") splits at
Terminators == {".", "!", "?", ";"}

MaxTokens == 5
\* the words and marks of the texts tried
Tokens == {"Thanks", "thank", "you", "can", "more", "bye", "somehow", ".", "?"}

\* the texts the specification names
QuestionThenThanks ==
    <<"Can", "you", "tell", "me", "more", "about", "your", "art", "?", "Thanks", ".">>
ThankYou == <<"Thank", "you", ".">>
ThanksForTelling ==
    <<"Thanks", "for", "telling", "me", "more", "about", "your", "paintings">>

Texts ==
    UNION {[1..n -> Tokens] : n \in 0..MaxTokens}
        \cup {QuestionThenThanks, ThankYou, ThanksForTelling}

\* str.lower() of a word
Lower(word) ==
    CASE word = "Thanks" -> "thanks"
      [] word = "Thank" -> "thank"
      [] word = "Can" -> "can"
      [] OTHER -> word

\* word.endswith(suffix), for the words above
EndsWith(word, suffix) == word = suffix \/ (word = "somehow" /\ suffix = "how")

RECURSIVE re_split(_, _, _)
\* re.split(r"[.!?;]+", text): the pieces between runs of terminators, the
\* empty pieces at the ends included
re_split(tokens, sentence, in_run) ==
    IF tokens = <<>> THEN <<sentence>>
    ELSE IF Head(tokens) \in Terminators
         THEN IF in_run THEN re_split(Tail(tokens), <<>>, TRUE)
              ELSE <<sentence>> \o re_split(Tail(tokens), <<>>, TRUE)
         ELSE re_split(Tail(tokens), Append(sentence, Lower(Head(tokens))), FALSE)

\* phrase in sentence, for a phrase of whole words: the phrase ends a word,
\* goes on over the next words and ends with a word
PhraseIn(phrase, sentence) ==
    \E i \in 1..(Len(sentence) - Len(phrase) + 1) :
        \A j \in 1..Len(phrase) : sentence[i + j - 1] = phrase[j]

\* q_word + " " in sentence: a word that is not the last one ends with q_word
AsksWith(q_word, sentence) ==
    \E i \in 1..(Len(sentence) - 1) : EndsWith(sentence[i], q_word)

\* the loop's body with the question test on the first word only
ExitIntent_lead_word_only(sentence) ==
    IF sentence = <<>> THEN "next"
    ELSE IF sentence \in EXIT_PHRASES THEN "exit"
    ELSE IF sentence[1] \in q_words THEN "next"
    ELSE IF /\ Len(sentence) <= 4
            /\ \E t \in THANK_PHRASES : PhraseIn(t, sentence)
            /\ ~\E i \in 1..Len(sentence) : sentence[i] \in continuation_words
         THEN "exit"
         ELSE "next"

\* the body of the loop for one sentence: "exit", or "next" sentence
ExitIntent(sentence) ==
    IF sentence = <<>> THEN "next"
    ELSE IF sentence \in EXIT_PHRASES THEN "exit"
    ELSE IF \E q \in q_words : AsksWith(q, sentence) THEN "next"
    ELSE IF /\ Len(sentence) <= 4
            /\ \E t \in THANK_PHRASES : PhraseIn(t, sentence)
            /\ ~\E i \in 1..Len(sentence) : sentence[i] \in continuation_words
         THEN "exit"
         ELSE "next"

RECURSIVE AnyExit(_)
\* for sentence in sentences: the first sentence with exit intent returns True
AnyExit(sentences) ==
    IF sentences = <<>> THEN FALSE
    ELSE IF ExitIntent(Head(sentences)) = "exit" THEN TRUE
    ELSE AnyExit(Tail(sentences))

should_exit(text) == AnyExit(re_split(text, <<>>, FALSE))

\* should_exit is called with a text, and returns
se_return ==
    /\ exit_call.pc = "call"
    /\ exit_call' = [exit_call EXCEPT !.pc = "done", !.result = should_exit(exit_call.text)]
    /\ UNCHANGED <<server, recorder, filler, timing, cli, energy>>

ExitInit ==
    /\ ServerInit
    /\ recorder = Off
    /\ exit_call \in {[pc |-> "call", text |-> text, result |-> FALSE] : text \in Texts}
    /\ filler = Off
    /\ timing = Off
    /\ cli = Off
    /\ energy = Off

ExitSpec == ExitInit /\ [][se_return]_vars

\* the sentences of a text as the specification reads them: split at the
\* terminators, lower case, the empty ones left out
SentencesOf(text) ==
    LET pieces == re_split(text, <<>>, FALSE)
    IN  {pieces[i] : i \in {j \in 1..Len(pieces) : pieces[j] # <<>>}}

\* at most 4 words with a gratitude phrase
ShortGratitude(sentence) ==
    Len(sentence) <= 4 /\ \E t \in THANK_PHRASES : PhraseIn(t, sentence)

\* C15: should_exit is false for a question followed by a short gratitude
\* sentence: for "Can you tell me more about your art? Thanks.", and for
\* every text made of a sentence that ends with a question mark and a
\* sentence of at most 4 words with a gratitude phrase.
C15_QuestionThenThanksStays ==
    exit_call.pc = "done" =>
        LET text == exit_call.text
        IN  (\/ text = QuestionThenThanks
             \/ \E q \in 1..Len(text) :
                   /\ text[q] = "?"
                   /\ q > 1
                   /\ \A i \in 1..(q - 1) : text[i] \notin Terminators
                   /\ SentencesOf(SubSeq(text, 1, q)) \cap EXIT_PHRASES = {}
                   /\ \A i \in (q + 1)..Len(text) : text[i] # "?"
                   /\ \E g \in SentencesOf(SubSeq(text, q + 1, Len(text))) : ShortGratitude(g)
                   /\ Cardinality(SentencesOf(SubSeq(text, q + 1, Len(text)))) = 1)
            => exit_call.result = FALSE

FILLER_STATEMENTS ==
    << <<"Hmm,", "let", "me", "think...">>,
       <<"Ah,", "interesting", "question...">>,
       <<"Let", "me", "reflect", "on", "that...">>,
       <<"How", "shall", "I", "respond...">>,
       <<"This", "reminds", "me", "of", "something...">>,
       <<"That's", "a", "thoughtful", "point...">>,
       <<"Thinking", "of", "my", "perspective...">>,
       <<"Considering", "this", "from", "my", "experience...">>,
       <<"Let", "me", "share", "my", "thoughts...">>,
       <<"Un", "momento,", "por", "favor...">> >>

\* no answer of get_filler yet; synthesized tells whether the call that gave
\* the answer asked the speech service
NoFiller ==
    [text |-> <<>>, audio_base64 |-> NoAudio, estimated_duration |-> 0,
     synthesized |-> FALSE]

\* what random.choice(seq) can return, all but the last element
random_choice_skips_last(seq) == {seq[i] : i \in 1..(Len(seq) - 1)}

\* what random.choice(seq) can return
random_choice(seq) == {seq[i] : i \in 1..Len(seq)}

\* a generate_audio that never stores what it generated
generate_audio_never_caches(text, cache_key, cache) ==
    [audio |-> Speech(text), cache |-> cache, synthesized |-> TRUE]

\* generate_audio(text, cache_key) on the cache: the audio, the cache after
\* the call, and whether the speech service was called; cache_key is <<>>
\* for None and <<key>> for a key
generate_audio(text, cache_key, cache) ==
    IF cache_key # <<>> /\ Has(cache, cache_key[1])
    THEN [audio |-> cache[cache_key[1]], cache |-> cache, synthesized |-> FALSE]
    ELSE [audio |-> Speech(text),
          cache |-> IF cache_key # <<>> THEN Put(cache, cache_key[1], Speech(text))
                    ELSE cache,
          synthesized |-> TRUE]

\* init_filler_statements() and prepare_filler_statements() have run: every
\* statement has its audio in the server's cache and its file in the client
FillerInit ==
    /\ ServerInit
    /\ recorder = Off
    /\ exit_call = Off
    /\ filler = [pc |-> "serving", i |-> Len(FILLER_STATEMENTS),
                 client |-> "loop", j |-> Len(FILLER_STATEMENTS), spoken |-> <<>>,
                 filler_audio_cache |->
                     [s \in random_choice(FILLER_STATEMENTS) |-> Speech(s)],
                 filler_audio_files |->
                     [s \in random_choice(FILLER_STATEMENTS) |-> <<"file", Speech(s)>>],
                 response |-> NoFiller,
                 played |-> [text |-> <<>>, audio_file |-> NoAudio]]
    /\ timing = Off
    /\ cli = Off
    /\ energy = Off

\* POST /get_filler answers with the statement chosen
get_filler_choosing(statement) ==
    /\ filler.pc = "serving"
    /\ statement \in random_choice(FILLER_STATEMENTS)
    /\ LET cached == Has(filler.filler_audio_cache, statement)
           filler_audio ==
               IF cached
               THEN filler.filler_audio_cache[statement]
               ELSE generate_audio(statement, <<>>, filler.filler_audio_cache).audio
       IN  filler' = [filler EXCEPT !.response =
                         [text |-> statement,
                          audio_base64 |-> B64(filler_audio),
                          estimated_duration |-> Len(statement) * 300,
                          synthesized |-> ~cached]]
    /\ UNCHANGED <<server, recorder, exit_call, timing, cli, energy>>

get_filler == \E statement \in random_choice(FILLER_STATEMENTS) : get_filler_choosing(statement)

\* play_filler_statement() plays the file of the statement chosen
play_filler_choosing(statement) ==
    /\ filler.client = "loop"
    /\ DOMAIN filler.filler_audio_files # {}
    /\ statement \in random_choice(FILLER_STATEMENTS) \cap DOMAIN filler.filler_audio_files
    /\ filler' = [filler EXCEPT !.played =
                     [text |-> statement, audio_file |-> filler.filler_audio_files[statement]]]
    /\ UNCHANGED <<server, recorder, exit_call, timing, cli, energy>>

play_filler_statement ==
    \E statement \in random_choice(FILLER_STATEMENTS) : play_filler_choosing(statement)

FillerNext == get_filler \/ play_filler_statement

\* random.choice gives every element with the same probability at every
\* call, and the calls go on: no choice that stays possible is left out forever
FillerFairness ==
    \A i \in 1..Len(FILLER_STATEMENTS) :
        /\ WF_vars(get_filler_choosing(FILLER_STATEMENTS[i]))
        /\ WF_vars(play_filler_choosing(FILLER_STATEMENTS[i]))

FillerSpec == FillerInit /\ [][FillerNext]_vars /\ FillerFairness

\* C17: at every call each of the ten statements can be the one returned by
\* get_filler and the one played by play_filler_statement, and under fair
\* choice each of them is returned, and played, again and again.
C17_EveryFillerEventually ==
    \A i \in 1..Len(FILLER_STATEMENTS) :
        /\ [](ENABLED get_filler_choosing(FILLER_STATEMENTS[i]))
        /\ [](ENABLED play_filler_choosing(FILLER_STATEMENTS[i]))
        /\ []<>(filler.response.text = FILLER_STATEMENTS[i])
        /\ []<>(filler.played.text = FILLER_STATEMENTS[i])

\* the server has answered with the last statement while the client played
\* the first one
C17_Witness ==
    /\ filler.pc = "serving"
    /\ filler.response.text = FILLER_STATEMENTS[10]
    /\ filler.response.audio_base64 = B64(Speech(FILLER_STATEMENTS[10]))
    /\ filler.played.text = FILLER_STATEMENTS[1]


\* ------------------------------------------------- check_response: lip sync
\* A reply is a sequence of characters; times are in milliseconds.
MaxText == 5
Characters == {"a", "b", " ", "\n"}
Whitespace == {" ", "\n"}
Replies == UNION {[1..n -> Characters] : n \in 0..MaxText}

RECURSIVE str_split(_, _)
\* frida_response.split(): the runs of characters between whitespace
str_split(text, word) ==
    IF text = <<>> THEN (IF word = <<>> THEN <<>> ELSE <<word>>)
    ELSE IF Head(text) \in Whitespace
         THEN (IF word = <<>> THEN <<>> ELSE <<word>>) \o str_split(Tail(text), <<>>)
         ELSE str_split(Tail(text), Append(word, Head(text)))

RECURSIVE phoneme_data_no_gap(_, _)
\* the loop without the gap between two words
phoneme_data_no_gap(words, current_time) ==
    IF words = <<>> THEN <<>>
    ELSE LET word == Head(words)
             word_duration == Len(word) * 75
         IN  <<[word |-> word, start_time |-> current_time,
                end_time |-> current_time + word_duration]>>
                 \o phoneme_data_no_gap(Tail(words), current_time + word_duration)

RECURSIVE phoneme_data(_, _)
\* for word in words: one entry, then current_time += word_duration + 0.1
phoneme_data(words, current_time) ==
    IF words = <<>> THEN <<>>
    ELSE LET word == Head(words)
             word_duration == Len(word) * 75
         IN  <<[word |-> word, start_time |-> current_time,
                end_time |-> current_time + word_duration]>>
                 \o phoneme_data(Tail(words), current_time + word_duration + 100)

\* check_response builds the answer of a completed task from its reply
cr_timing ==
    /\ timing.pc = "call"
    /\ LET words == str_split(timing.frida_response, <<>>)
       IN  timing' = [timing EXCEPT !.pc = "done",
                                    !.estimated_duration = Len(words) * 300,
                                    !.phoneme_data = phoneme_data(words, 0)]
    /\ UNCHANGED <<server, recorder, exit_call, filler, cli, energy>>

TimingInit ==
    /\ ServerInit
    /\ recorder = Off
    /\ exit_call = Off
    /\ filler = Off
    /\ timing \in {[pc |-> "call", frida_response |-> text, estimated_duration |-> 0,
                    phoneme_data |-> <<>>] : text \in Replies}
    /\ cli = Off
    /\ energy = Off

TimingSpec == TimingInit /\ [][cr_timing]_vars

\* C18: the timing table has one entry per word of the reply, in the order
\* of the reply; the first starts at 0, each ends 75 ms per character after
\* its start, each next one starts 100 ms after the end of the one before,
\* so that entries do not overlap and starts strictly increase; the total
\* duration is 300 ms times the number of words.
C18_WordTimings ==
    timing.pc = "done" =>
        LET text == timing.frida_response
            table == timing.phoneme_data
            \* the places of the reply where a word starts
            starts == {i \in 1..Len(text) :
                          text[i] \notin Whitespace /\ (i = 1 \/ text[i - 1] \in Whitespace)}
            \* the word of the reply that starts at place i
            WordAt(i) ==
                LET last == CHOOSE j \in i..Len(text) :
                                /\ \A k \in i..j : text[k] \notin Whitespace
                                /\ (j = Len(text) \/ text[j + 1] \in Whitespace)
                IN  SubSeq(text, i, last)
        IN  /\ Len(table) = Cardinality(starts)
            /\ \A i \in starts :
                  table[Cardinality({j \in starts : j <= i})].word = WordAt(i)
            /\ table # <<>> => table[1].start_time = 0
            /\ \A n \in 1..Len(table) :
                  table[n].end_time = table[n].start_time + 75 * Len(table[n].word)
            /\ \A n \in 1..(Len(table) - 1) :
                  /\ table[n + 1].start_time = table[n].end_time + 100
                  /\ table[n].end_time <= table[n + 1].start_time
                  /\ table[n].start_time < table[n + 1].start_time
            /\ timing.estimated_duration = 300 * Cardinality(starts)

\* a reply of two words of different lengths, with whitespace around them,
\* has its table
C18_Witness ==
    /\ timing.pc = "done"
    /\ timing.frida_response = <<" ", "a", "b", "\n", "a">>
    /\ Len(timing.phoneme_data) = 2
    /\ timing.phoneme_data[2].start_time = 250
    /\ timing.estimated_duration = 600


\* C19: a task whose completed flag is true has its final text and its final
\* audio; a check_response that has seen the flag has read both, and every
\* completed answer of check_response and every audio answer of get_audio
\* carries the final text and audio of a task, whatever the interleaving
\* with the generation thread.
C19_CompletedMeansWhole ==
    /\ \A t \in DOMAIN tasks :
          tasks[t].completed =>
              /\ tasks[t].text = Reply(t)
              /\ tasks[t].audio = Speech(Reply(t))
    /\ \A w \in Workers :
          /\ workers[w].pc = "cr_del" =>
                /\ workers[w].ret.text = Reply(workers[w].task)
                /\ workers[w].ret.audio = B64(Speech(Reply(workers[w].task)))
          /\ (workers[w].pc = "return" /\ workers[w].ret.code = 200
                 /\ workers[w].ret.body = "completed") =>
                \E t \in DOMAIN tasks :
                    /\ tasks[t].completed
                    /\ workers[w].ret.text = Reply(t)
                    /\ workers[w].ret.audio = B64(Speech(Reply(t)))
          /\ (workers[w].pc = "return" /\ workers[w].ret.code = 200
                 /\ workers[w].ret.body = "audio") =>
                \E t \in DOMAIN tasks :
                    tasks[t].completed /\ workers[w].ret.audio = Speech(Reply(t))

\* one poller has seen the completed flag and read the result while another
\* request is answered with the audio of the same task
C19_Witness ==
    \E s \in SessionIds :
        /\ workers[1].pc = "cr_del"
        /\ workers[1].session_id = s
        /\ tasks[workers[1].task].completed
        /\ Answered(2, "get_audio", s)
        /\ workers[2].ret.code = 200


\* C20: in every stored history each user turn is directly followed by an
\* assistant turn, or it is the last turn and the thread that appended it is
\* about to append its reply to the same list.
C20_TurnsStayPaired ==
    \A s \in DOMAIN sessions :
        LET history == lists[sessions[s]]
        IN  \A i \in 1..Len(history) :
                history[i].role = "user" =>
                    \/ i < Len(history) /\ history[i + 1].role = "assistant"
                    \/ /\ i = Len(history)
                       /\ \E t \in DOMAIN tasks :
                             /\ tasks[t].pc = "append_reply"
                             /\ tasks[t].conversation_history = sessions[s]


\* ------------------------------------------- the command-line client's loop
\* main() of the client: one conversation_history list, one exchange at a
\* time; the generation thread is joined before the loop goes on.  Texts
\* are sequences of words and marks, as for should_exit.
MaxExchanges == 11
Heard == {<<"can", "you", "?">>, <<"more">>, <<"bye">>}

\* get_frida_response: the history cut to its first and its last 18 turns
\* when it has more than 20, then the message list
cli_messages(user_text, conversation_history) ==
    LET n == Len(conversation_history)
        kept == IF n > 20
                THEN <<conversation_history[1]>> \o SubSeq(conversation_history, n - 17, n)
                ELSE conversation_history
    IN  <<Turn("system", <<FRIDA_PROMPT>>)>> \o kept \o <<Turn("user", user_text)>>

\* conversation_history.append(welcome turn), before the loop
cli_welcome ==
    /\ cli.pc = "welcome"
    /\ cli' = [cli EXCEPT !.pc = "listen",
                          !.conversation_history =
                              Append(@, Turn("assistant", <<welcome_message>>))]
    /\ UNCHANGED <<server, recorder, exit_call, filler, timing, energy>>

\* record_audio and the transcription give user_text; should_exit ends the
\* loop, otherwise the user turn is appended and the generation starts
cli_listen(user_text) ==
    /\ cli.pc = "listen"
    /\ cli.exchanges < MaxExchanges
    /\ cli' = IF should_exit(user_text)
              THEN [cli EXCEPT !.pc = "ended", !.user_text = user_text]
              ELSE [cli EXCEPT !.pc = "generate", !.user_text = user_text,
                               !.exchanges = @ + 1,
                               !.conversation_history =
                                   Append(@, Turn("user", user_text))]
    /\ UNCHANGED <<server, recorder, exit_call, filler, timing, energy>>

\* the thread calls get_frida_response(user_text, conversation_history),
\* which builds messages and sends them
cli_generate ==
    /\ cli.pc = "generate"
    /\ cli' = [cli EXCEPT !.pc = "llm",
                          !.messages = cli_messages(cli.user_text, cli.conversation_history)]
    /\ UNCHANGED <<server, recorder, exit_call, filler, timing, energy>>

\* the reply arrives, the thread is joined, and
\* conversation_history.append(assistant turn)
cli_reply ==
    /\ cli.pc = "llm"
    /\ cli' = [cli EXCEPT !.pc = "listen", !.messages = <<>>,
                          !.conversation_history =
                              Append(@, Turn("assistant", <<Reply(cli.exchanges)>>))]
    /\ UNCHANGED <<server, recorder, exit_call, filler, timing, energy>>

CliInit ==
    /\ ServerInit
    /\ recorder = Off
    /\ exit_call = Off
    /\ filler = Off
    /\ timing = Off
    /\ cli = [pc |-> "welcome", conversation_history |-> <<>>, user_text |-> <<>>,
              messages |-> <<>>, exchanges |-> 0]
    /\ energy = Off

CliNext ==
    \/ cli_welcome
    \/ \E user_text \in Heard : cli_listen(user_text)
    \/ cli_generate
    \/ cli_reply

CliSpec == CliInit /\ [][CliNext]_vars

\* C21: the message list the client sends to the language model is the
\* persona preamble, then the turns the history held before the new user
\* turn, verbatim and in order, then the new user turn once, as the last
\* message.
C21_PromptIsHistoryThenTurn ==
    cli.pc = "llm" =>
        LET history == cli.conversation_history
        IN  cli.messages =
                <<Turn("system", <<FRIDA_PROMPT>>)>>
                    \o SubSeq(history, 1, Len(history) - 1)
                    \o <<Turn("user", cli.user_text)>>


\* C22: while recording, a chunk with energy at or below the threshold adds
\* one to the silence count and a chunk above it sets the count to zero; the
\* loop ends at the chunk with which the count reaches the silence limit,
\* and every chunk read is appended to the frames.
C22_SilenceCountsAtOrBelow ==
    [][(recorder.pc = "loop" /\ recorder.audio_started /\ recorder'.i = recorder.i + 1) =>
          LET rms == recorder.stream[recorder'.i]
          IN  /\ rms <= threshold => recorder'.silent_chunks = recorder.silent_chunks + 1
              /\ rms > threshold => recorder'.silent_chunks = 0
              /\ recorder'.pc = "break"
                   <=> recorder'.silent_chunks >= recorder.silence_chunks
              /\ recorder'.frames = Append(recorder.frames, recorder'.i)]_vars

\* C23: a returned recording is a run of the stream without gap and without
\* repetition: its chunks are consecutive chunks of the stream, in order,
\* from its first one to its last one.
C23_BufferIsContiguous ==
    (recorder.pc = "done" /\ recorder.result = "file") =>
        /\ recorder.wav # <<>>
        /\ recorder.wav = Chunks(recorder.wav[1], recorder.wav[Len(recorder.wav)])


\* record_audio is a sequential function: stream.read blocks until the
\* device has the next chunk and then the loop goes on
VadFairSpec == VadSpec /\ WF_vars(record_audio)

\* C24: record_audio returns, after reading at most max_chunks chunks; when
\* the recording started and the silence count never reached its limit, it
\* returns when max_chunks chunks were read, with every chunk read since the
\* recording started.
C24_StopsAtFrameCap ==
    /\ <>(recorder.pc = "done")
    /\ [](recorder.i <= recorder.max_chunks)
    /\ []((/\ recorder.pc = "done"
           /\ recorder.audio_started
           /\ recorder.silent_chunks < recorder.silence_chunks)
          => /\ recorder.i = recorder.max_chunks
             /\ recorder.result = "file"
             /\ recorder.wav = recorder.frames
             /\ \A k \in Trigger..recorder.max_chunks :
                   \E p \in 1..Len(recorder.wav) : recorder.wav[p] = k)

\* a recording that started and ran into the cap while the voice went on
C24_Witness ==
    /\ recorder.pc = "done"
    /\ recorder.audio_started
    /\ recorder.i = recorder.max_chunks
    /\ recorder.stream[recorder.max_chunks] > threshold
    /\ recorder.result = "file"


\* ------------------------------------------------------------------ get_rms
\* A frame is the sequence of the bytes stream.read returned.
MaxBytes == 5
Bytes == {0, 1, 255}
Frames == UNION {[1..n -> Bytes] : n \in 0..MaxBytes}

\* one "h" of struct.unpack: two bytes as a signed 16-bit integer, the low
\* byte first (the byte order of the machine)
Short(low, high) ==
    LET u == low + 256 * high
    IN  IF u >= 32768 THEN u - 65536 ELSE u

\* struct.unpack(f"{count}h", data): the shorts, or struct.error when the
\* frame is not exactly 2 * count bytes long
struct_unpack(count, data) ==
    IF Len(data) # 2 * count THEN [error |-> "struct.error", shorts |-> <<>>]
    ELSE [error |-> "",
          shorts |-> [k \in 1..count |-> Short(data[2 * k - 1], data[2 * k])]]

RECURSIVE SumOfSquares(_)
SumOfSquares(shorts) ==
    IF shorts = <<>> THEN 0
    ELSE Head(shorts) * Head(shorts) + SumOfSquares(Tail(shorts))

\* math.sqrt, in whole units
Sqrt(x) == CHOOSE r \in 0..32768 : r * r <= x /\ x < (r + 1) * (r + 1)

\* rms = get_rms(data) in the loop of record_audio, which has no handler
\* around it: an exception of get_rms leaves record_audio
rms_call ==
    /\ energy.pc = "call"
    /\ LET data == energy.data
           count == Len(data) \div 2
           unpacked == struct_unpack(count, data)
           shorts == unpacked.shorts
       IN  energy' =
             IF unpacked.error # ""
             THEN [energy EXCEPT !.pc = "done", !.raised = TRUE, !.loop = "aborted"]
             ELSE [energy EXCEPT !.pc = "done", !.loop = "next",
                                 !.rms = IF count > 0
                                         THEN Sqrt(SumOfSquares(shorts) \div count)
                                         ELSE 0]
    /\ UNCHANGED <<server, recorder, exit_call, filler, timing, cli>>

RmsInit ==
    /\ ServerInit
    /\ recorder = Off
    /\ exit_call = Off
    /\ filler = Off
    /\ timing = Off
    /\ cli = Off
    /\ energy \in {[pc |-> "call", data |-> data, raised |-> FALSE, rms |-> 0,
                    loop |-> ""] : data \in Frames}

RmsSpec == RmsInit /\ [][rms_call]_vars

\* C25: for a frame of any length get_rms returns a value, zero when the
\* frame holds no complete sample, and the loop of record_audio goes on to
\* the next frame.
C25_ShortFrameIsZeroEnergy ==
    energy.pc = "done" =>
        /\ ~energy.raised
        /\ Len(energy.data) < 2 => energy.rms = 0
        /\ energy.loop = "next"


\* ------------------------------------------------- filler caches at start-up
\* The server fills filler_audio_cache when the module is loaded and serves
\* afterwards; the client fills filler_audio_files before its loop.
\* one pass of the loop of init_filler_statements
init_filler_statement ==
    /\ filler.pc = "init"
    /\ LET statement == FILLER_STATEMENTS[filler.i + 1]
           made == generate_audio(statement, <<statement>>, filler.filler_audio_cache)
       IN  filler' = [filler EXCEPT
                         !.i = @ + 1,
                         !.filler_audio_cache = made.cache,
                         !.pc = IF filler.i + 1 = Len(FILLER_STATEMENTS)
                                THEN "serving" ELSE "init"]
    /\ UNCHANGED <<server, recorder, exit_call, timing, cli, energy>>

\* the speech service fails during the loop: the module is not loaded
init_filler_raise ==
    /\ filler.pc = "init"
    /\ filler' = [filler EXCEPT !.pc = "crashed"]
    /\ UNCHANGED <<server, recorder, exit_call, timing, cli, energy>>

\* the other callers of generate_audio, start_session and the generation
\* thread, pass no cache key
other_synthesis(text) ==
    /\ filler.pc = "serving"
    /\ LET made == generate_audio(text, <<>>, filler.filler_audio_cache)
       IN  filler' = [filler EXCEPT !.filler_audio_cache = made.cache,
                                    !.spoken = made.audio]
    /\ UNCHANGED <<server, recorder, exit_call, timing, cli, energy>>

\* one pass of the loop of prepare_filler_statements in the client
prepare_filler_statement ==
    /\ filler.client = "prepare"
    /\ LET statement == FILLER_STATEMENTS[filler.j + 1]
       IN  filler' = [filler EXCEPT
                         !.j = @ + 1,
                         !.filler_audio_files =
                             Put(@, statement, <<"file", Speech(statement)>>),
                         !.client = IF filler.j + 1 = Len(FILLER_STATEMENTS)
                                    THEN "loop" ELSE "prepare"]
    /\ UNCHANGED <<server, recorder, exit_call, timing, cli, energy>>

StartupInit ==
    /\ ServerInit
    /\ recorder = Off
    /\ exit_call = Off
    /\ filler = [pc |-> "init", i |-> 0, client |-> "prepare", j |-> 0, spoken |-> <<>>,
                 filler_audio_cache |-> EmptyDict,
                 filler_audio_files |-> EmptyDict,
                 response |-> NoFiller,
                 played |-> [text |-> <<>>, audio_file |-> NoAudio]]
    /\ timing = Off
    /\ cli = Off
    /\ energy = Off

StartupNext ==
    \/ init_filler_statement
    \/ init_filler_raise
    \/ \E text \in {welcome_message, Reply(1)} : other_synthesis(text)
    \/ prepare_filler_statement
    \/ get_filler
    \/ play_filler_statement

StartupSpec == StartupInit /\ [][StartupNext]_vars

\* C26: once init_filler_statements has completed the cache holds the audio
\* of each of the ten statements and of nothing else, and stays so whatever
\* is called; get_filler serves from it and never asks the speech service.
C26_CacheFilledOnceAndKept ==
    /\ filler.pc = "serving" =>
          /\ DOMAIN filler.filler_audio_cache = random_choice(FILLER_STATEMENTS)
          /\ \A s \in DOMAIN filler.filler_audio_cache :
                filler.filler_audio_cache[s] = Speech(s)
    /\ filler.pc # "serving" => filler.response = NoFiller
    /\ ~filler.response.synthesized

\* get_filler has answered from the cache after another handler generated
\* speech of its own
C26_Witness ==
    /\ filler.pc = "serving"
    /\ filler.spoken = Speech(welcome_message)
    /\ filler.response.text = FILLER_STATEMENTS[10]
    /\ filler.response.audio_base64 = B64(Speech(FILLER_STATEMENTS[10]))
    /\ ~filler.response.synthesized


\* C27: a step of a handler called with session id s, or of a generation
\* thread started for s, leaves the history and the task entry of every
\* other session id as they were; and a result returned for s is the text
\* and the audio of a task that was started for s.
C27_SessionsIsolated ==
    /\ [][LET ActsFor(s) ==
                 \/ \E w \in Workers :
                       /\ workers'[w] # workers[w]
                       /\ s = IF workers[w].pc = "idle" THEN workers'[w].session_id
                              ELSE workers[w].session_id
                 \/ \E t \in DOMAIN tasks :
                       ThreadStep(t) /\ tasks[t].session_id = s
             Result(task) == <<task.pc, task.text, task.audio, task.completed>>
             Untouched(o) ==
                 /\ Has(sessions', o) <=> Has(sessions, o)
                 /\ Has(sessions, o) => lists'[sessions'[o]] = lists[sessions[o]]
                 /\ Has(response_threads', o) <=> Has(response_threads, o)
                 /\ Has(response_threads, o) =>
                       /\ response_threads'[o] = response_threads[o]
                       /\ Result(tasks'[response_threads[o]])
                              = Result(tasks[response_threads[o]])
         IN  \A s \in EndArgs :
                 ActsFor(s) => \A o \in SessionIds \ {s} : Untouched(o)]_vars
    /\ [](\A w \in Workers :
             (workers[w].pc = "return" /\ workers[w].ret.code = 200
                 /\ workers[w].ret.body \in {"completed", "audio"}) =>
                \E t \in DOMAIN tasks :
                    /\ tasks[t].session_id = workers[w].session_id
                    /\ workers[w].ret.audio \in
                           {Speech(Reply(t)), B64(Speech(Reply(t)))}
                    /\ workers[w].ret.body = "completed" =>
                           workers[w].ret.text = Reply(t))

\* the result of one session is delivered while another session has its own
\* history and its own task entry
C27_Witness ==
    \E s \in SessionIds, o \in SessionIds :
        /\ s # o
        /\ Answered(1, "check_response", s)
        /\ workers[1].ret.body = "completed"
        /\ Has(sessions, o)
        /\ Has(response_threads, o)
        /\ tasks[response_threads[o]].session_id = o


\* C28: two get_response calls for one session, the second before the first
\* result was fetched.  The task map then holds the second task; a
\* check_response that finds the entry answers 'processing' while the second
\* task has not completed and the second task's text and audio once it has;
\* the first task's result is never delivered; and the first task, when it
\* gets there, still appends its reply and stores the history under the id.
C28_SecondTaskReplacesFirst ==
    /\ [](\A s \in SessionIds :
             (/\ Len(tasks) = 2
              /\ tasks[1].session_id = s /\ tasks[2].session_id = s
              /\ delivered[1] = 0
              /\ workers[1].pc # "gr_store"
              /\ Has(response_threads, s))
             => response_threads[s] = 2)
    /\ [][\A s \in SessionIds :
             (/\ Len(tasks) = 2
              /\ tasks[1].session_id = s /\ tasks[2].session_id = s
              /\ delivered[1] = 0)
             => /\ delivered'[1] = 0
                /\ (Answers(1, "check_response", s) /\ Has(response_threads, s)) =>
                      IF tasks[2].completed
                      THEN workers'[1].ret =
                               [code |-> 200, body |-> "completed", text |-> Reply(2),
                                audio |-> B64(Speech(Reply(2)))]
                      ELSE workers'[1].ret = Ret(200, "not_completed")
                /\ (tasks[1].pc = "append_reply" /\ ThreadStep(1)) =>
                      lists'[tasks[1].conversation_history] =
                          Append(lists[tasks[1].conversation_history],
                                 Turn("assistant", Reply(1)))
                /\ (tasks[1].pc = "store" /\ ThreadStep(1)) =>
                      /\ Has(sessions', s)
                      /\ \E i \in 1..Len(lists'[sessions'[s]]) :
                            lists'[sessions'[s]][i] = Turn("assistant", Reply(1))]_vars

\* the second task's result is delivered after the first task finished
\* unfetched, with the first task's reply in the history
C28_Witness ==
    \E s \in SessionIds :
        /\ Len(tasks) = 2
        /\ tasks[1].session_id = s /\ tasks[2].session_id = s
        /\ delivered[1] = 0
        /\ tasks[1].pc = "done"
        /\ Answered(1, "check_response", s)
        /\ workers[1].ret.body = "completed"
        /\ workers[1].ret.text = Reply(2)
        /\ Has(sessions, s)
        /\ \E i \in 1..Len(lists[sessions[s]]) :
              lists[sessions[s]][i] = Turn("assistant", Reply(1))


\* C29: whenever no request is being handled, every session id with an
\* entry in response_threads has an entry in sessions.
C29_TaskEntryHasSession ==
    (\A w \in Workers : workers[w].pc \in {"idle", "return"})
        => DOMAIN response_threads \subseteq DOMAIN sessions

====
